---------------------------- MODULE Spec2Model ----------------------------
(***************************************************************************)
(* State-machine model of the two connected views of the content site:     *)
(*   - PostDetail (frontend/src/pages/PostDetail/index.js)                 *)
(*   - Donors     (the donor listing page)                                 *)
(* The views read a redux store through selectors and write to it only by  *)
(* calling the action creators bound into their props.  Every call of an   *)
(* action creator is recorded, in call order, in a log.  The reducers and  *)
(* sagas behind the action creators are not part of the view sources; the  *)
(* store side is modelled from the written specification (request status   *)
(* PENDING -> SUCCESS | FAIL, a new fetch resets to PENDING, no            *)
(* cancellation of outstanding requests).                                  *)
(***************************************************************************)
EXTENDS Integers, Sequences, FiniteSets, TLC

VARIABLES
    pdMounted,      \* PostDetail instance has run componentWillMount
    routeId,        \* this.props.match.params.id of PostDetail
    blog,           \* store slice read by blogSelector
    auth,           \* store slice read by authSelector
    dispatched,     \* log of the action-creator calls made by PostDetail
    pending,        \* indices of `dispatched` whose request is still outstanding
    idChanges,      \* number of props updates that changed the route identifier
    submitted,      \* what the user submitted through the form: <<route id, payload>>
    donorsMounted,  \* a Donors instance is mounted
    donors,         \* store slice read by donorsSelector
    donorsCalls,    \* calls of getDonorListPage made by the mounted Donors instance
    loadedAtMount,  \* value of donorListPageLoaded read by componentWillMount
    listPending     \* number of outstanding list-page requests

vars == << pdMounted, routeId, blog, auth, dispatched, pending, idChanges,
           submitted, donorsMounted, donors, donorsCalls, loadedAtMount, listPending >>

pdVars == << pdMounted, routeId, blog, auth, dispatched, pending, idChanges,
            submitted >>

donorVars == << donorsMounted, donors, donorsCalls, loadedAtMount, listPending >>

---------------------------------------------------------------------------
(* Bounds of the model *)

NumIds == 2            \* route identifiers 1..NumIds
MaxDispatch == 5       \* longest log of PostDetail action-creator calls
MaxComments == 2       \* longest comment list held by the store
MaxDonors == 2         \* longest donor list page held by the store
MaxListFetches == 2    \* most list-page requests outstanding at once

Ids == 1..NumIds
Payloads == {"p1", "p2"}       \* form payloads handed to onSubmit
Users == {"ann"}               \* authenticated users
NULL == "null"                 \* JavaScript null / undefined

---------------------------------------------------------------------------
(* Request status enum imported from store/api/request *)

API_PENDING == "PENDING"
API_SUCCESS == "SUCCESS"
API_FAIL == "FAIL"

RequestStatus == {API_PENDING, API_SUCCESS, API_FAIL}

---------------------------------------------------------------------------
(* Action-creator calls.  One record per call: the creator's name and the  *)
(* fields of its argument (0 / "" / NULL where the argument has no such    *)
(* field).                                                                 *)

Call(type, id, data, name) == [type |-> type, id |-> id, data |-> data, name |-> name]

getPostDetail(id) == Call("getPostDetail", id, NULL, "")
getPostCommentList(id) == Call("getPostCommentList", id, NULL, "")
createPostComment(id, data) == Call("createPostComment", id, data, "")
show(name) == Call("show", 0, NULL, name)

\* getDetail = (id) => { getPostDetail({ id }); getPostCommentList({ id }) }
getDetail(id) == << getPostDetail(id), getPostCommentList(id) >>

\* componentWillMount() { this.getDetail(this.props.match.params.id) }
PostDetail_componentWillMount(id) == getDetail(id)

\* Variant: fetches for the identifier the component already shows.
componentWillReceiveProps_PreviousId(thisId, nextId) ==
    IF thisId # nextId THEN getDetail(thisId) ELSE << >>

\* Variant: fetches on every props update, the comparison dropped.
componentWillReceiveProps_Always(thisId, nextId) == getDetail(nextId)

\* Variant: skips the fetch while an earlier detail fetch is outstanding.
componentWillReceiveProps_SkipWhileBusy(thisId, nextId) ==
    IF thisId # nextId /\ ~(\E i \in pending : dispatched[i].type = "getPostDetail")
    THEN getDetail(nextId) ELSE << >>

\* componentWillReceiveProps(nextProps): fetch only when the id differs
componentWillReceiveProps(thisId, nextId) ==
    IF thisId # nextId THEN getDetail(nextId) ELSE << >>

\* Variant: the identifier captured at mount instead of the current one.
handlePostComment_MountId(id, data) == << createPostComment(dispatched[1].id, data) >>

\* handlePostComment = (data) => createPostComment({ id, data }), id read from this.props
handlePostComment(id, data) == << createPostComment(id, data) >>

\* handleSignIn = (e) => { e.preventDefault(); show('signinModal') }
handleSignIn == [ defaultPrevented |-> TRUE, calls |-> << show("signinModal") >> ]

---------------------------------------------------------------------------
(* Store contents *)

\* An optional value is a sequence of length 0 (absent) or 1 (present).
None == << >>
Some(x) == << x >>

Post(id) == [ pk |-> id, title |-> id, similar_posts |-> << >> ]

\* A comment as the API returns it: created_at is <<day, time of day>>.
Comment(id, k) ==
    [ content |-> << id, k >>, created_at |-> << k, id >>, user |-> [ full_name |-> "ann" ] ]

Comments(id, n) == [ k \in 1..n |-> Comment(id, k) ]

\* moment(created_at).format('ll'): the calendar day, the time of day dropped
moment_ll(created_at) == created_at[1]

IsRequest(call) == call.type \in {"getPostDetail", "getPostCommentList", "createPostComment"}

\* Synchronous effect of the calls on the blog slice: a detail fetch resets
\* the detail status to PENDING.
RECURSIVE Reduce(_, _)
Reduce(b, calls) ==
    IF calls = << >> THEN b
    ELSE Reduce(IF Head(calls).type = "getPostDetail"
                    THEN [b EXCEPT !.postDetailStatus = API_PENDING]
                    ELSE b,
                Tail(calls))

\* The indices the calls get in the log, for those that start a request.
NewPending(calls) ==
    { Len(dispatched) + k : k \in { j \in 1..Len(calls) : IsRequest(calls[j]) } }

---------------------------------------------------------------------------
(* Rendering of PostDetail *)

\* Variant: the form is rendered whether or not a user is signed in.
CommentsSection_FormAlways(comments, user) ==
    [ count |-> Len(comments),
      children |->
          [ i \in 1..Len(comments) |->
              [ tag |-> "comment", key |-> i - 1, content |-> comments[i].content,
                date |-> comments[i].created_at[1],
                author |-> comments[i].user.full_name ] ]
          \o << [ tag |-> "CommentForm", user |-> user ] >>
          \o (IF user # NULL THEN << >> ELSE << [ tag |-> "Alert", link |-> "/signin" ] >>) ]

\* Variant: the entries are rendered only when there is more than one.
CommentsSection_SkipsSingle(comments, user) ==
    [ count |-> Len(comments),
      children |->
          (IF Len(comments) > 1
              THEN [ i \in 1..Len(comments) |->
                       [ tag |-> "comment", key |-> i - 1, content |-> comments[i].content,
                         date |-> comments[i].created_at[1],
                         author |-> comments[i].user.full_name ] ]
              ELSE << >>)
          \o (IF user # NULL
                 THEN << [ tag |-> "CommentForm", user |-> user ] >>
                 ELSE << [ tag |-> "Alert", link |-> "/signin" ] >>) ]

\* <Section title={`Comments (${comments ? comments.length : 0})`}> and its children
CommentsSection(comments, user) ==
    [ count |-> Len(comments),
      children |->
          (IF Len(comments) # 0
              THEN [ i \in 1..Len(comments) |->
                       [ tag |-> "comment",
                         key |-> i - 1,
                         content |-> comments[i].content,
                         date |-> moment_ll(comments[i].created_at),
                         author |-> comments[i].user.full_name ] ]
              ELSE << >>)
          \o (IF user # NULL
                 THEN << [ tag |-> "CommentForm", user |-> user ] >>
                 ELSE << [ tag |-> "Alert", link |-> "/signin" ] >>) ]

\* renderDetail(): postDetail.get(...) throws when postDetail is absent
renderDetail(b, a) ==
    IF b.postDetail = None
    THEN [ tag |-> "TypeError" ]
    ELSE [ tag |-> "page-content",
           title |-> b.postDetail[1].title,
           comments |-> CommentsSection(b.commentList, a.currentUser),
           similar |-> [ i \in 1..Len(b.postDetail[1].similar_posts) |->
                           b.postDetail[1].similar_posts[i] ] ]

\* Variant: the detail is rendered whenever the status is not FAIL.
PostDetail_render_UnlessFail(b, a) ==
    (IF b.postDetailStatus = API_PENDING THEN << [ tag |-> "Spinner" ] >> ELSE << >>)
    \o (IF b.postDetailStatus = API_FAIL THEN << [ tag |-> "SectionTitle" ] >> ELSE << >>)
    \o (IF b.postDetailStatus # API_FAIL THEN << renderDetail(b, a) >> ELSE << >>)

\* render(): the children of FrontContainerLayout
PostDetail_render(b, a) ==
    (IF b.postDetailStatus = API_PENDING THEN << [ tag |-> "Spinner" ] >> ELSE << >>)
    \o (IF b.postDetailStatus = API_FAIL THEN << [ tag |-> "SectionTitle" ] >> ELSE << >>)
    \o (IF b.postDetailStatus = API_SUCCESS THEN << renderDetail(b, a) >> ELSE << >>)

\* What the mounted PostDetail shows in the current state.
Rendered == PostDetail_render(blog, auth)

Has(children, tag) == \E i \in 1..Len(children) : children[i].tag = tag
CountTag(children, tag) == Cardinality({ i \in 1..Len(children) : children[i].tag = tag })

DetailShown == Has(Rendered, "page-content")
DetailView == Rendered[1]

---------------------------------------------------------------------------
(* Initial state: the store may hold the result of an earlier visit. *)

InitBlog ==
    { [ postDetailStatus |-> s, postDetail |-> None, commentList |-> << >> ]
        : s \in {API_PENDING, API_FAIL} }
    \cup { [ postDetailStatus |-> API_SUCCESS, postDetail |-> Some(Post(i)),
             commentList |-> Comments(i, n) ] : i \in Ids, n \in {0, 1} }

InitPostDetail ==
    /\ pdMounted = FALSE
    /\ dispatched = << >>
    /\ pending = {}
    /\ idChanges = 0
    /\ submitted = << >>

InitDonorsView ==
    /\ donorsMounted = FALSE
    /\ donors = [ donorListPageLoaded |-> FALSE, donorListPage |-> << >> ]
    /\ donorsCalls = << >>
    /\ loadedAtMount = FALSE
    /\ listPending = 0

\* PostDetail is about to mount on some route, over any store left behind.
Init ==
    /\ InitPostDetail
    /\ routeId \in Ids
    /\ blog \in InitBlog
    /\ auth \in { [ currentUser |-> u ] : u \in Users \cup {NULL} }
    /\ InitDonorsView

\* Donors is about to mount over the freshly created store.
DonorsInit ==
    /\ InitPostDetail
    /\ routeId = 1
    /\ blog = [ postDetailStatus |-> API_PENDING, postDetail |-> None, commentList |-> << >> ]
    /\ auth = [ currentUser |-> NULL ]
    /\ InitDonorsView

---------------------------------------------------------------------------
(* PostDetail: lifecycle and handlers *)

\* The component makes `calls`; the store takes their synchronous effect.
Dispatch(calls) ==
    /\ Len(dispatched) + Len(calls) <= MaxDispatch
    /\ dispatched' = dispatched \o calls
    /\ pending' = pending \cup NewPending(calls)
    /\ blog' = Reduce(blog, calls)

\* The store changes to (b, a); connect hands the new props, with the same
\* route, to componentWillReceiveProps.
StoreUpdate(b, a, done) ==
    LET calls == componentWillReceiveProps(routeId, routeId) IN
    /\ Len(dispatched) + Len(calls) <= MaxDispatch
    /\ dispatched' = dispatched \o calls
    /\ pending' = (pending \ done) \cup NewPending(calls)
    /\ blog' = Reduce(b, calls)
    /\ auth' = a
    /\ UNCHANGED << pdMounted, routeId, idChanges, submitted >>

Mount ==
    /\ ~pdMounted
    /\ pdMounted' = TRUE
    /\ Dispatch(PostDetail_componentWillMount(routeId))
    /\ UNCHANGED << routeId, auth, idChanges, submitted >>
    /\ UNCHANGED donorVars

\* The router hands new props whose match.params.id is nextId.
RouteChange(nextId) ==
    /\ pdMounted
    /\ Dispatch(componentWillReceiveProps(routeId, nextId))
    /\ routeId' = nextId
    /\ idChanges' = IF nextId # routeId THEN idChanges + 1 ELSE idChanges
    /\ UNCHANGED << pdMounted, auth, submitted >>
    /\ UNCHANGED donorVars

\* The user submits the comment form (rendered only for a signed-in user).
SubmitComment(data) ==
    /\ pdMounted
    /\ DetailShown
    /\ Has(DetailView.comments.children, "CommentForm")
    /\ Dispatch(handlePostComment(routeId, data))
    /\ submitted' = Append(submitted, << routeId, data >>)
    /\ UNCHANGED << pdMounted, routeId, auth, idChanges >>
    /\ UNCHANGED donorVars

\* The user clicks the sign-in link of the prompt.
ClickSignIn ==
    /\ pdMounted
    /\ DetailShown
    /\ Has(DetailView.comments.children, "Alert")
    /\ Dispatch(handleSignIn.calls)
    /\ UNCHANGED << pdMounted, routeId, auth, idChanges, submitted >>
    /\ UNCHANGED donorVars

---------------------------------------------------------------------------
(* Store side of the blog and auth slices *)

\* An outstanding detail fetch resolves.
ResolveDetail(i, ok) ==
    /\ pdMounted
    /\ i \in pending
    /\ dispatched[i].type = "getPostDetail"
    /\ StoreUpdate(IF ok
                      THEN [blog EXCEPT !.postDetailStatus = API_SUCCESS,
                                        !.postDetail = Some(Post(dispatched[i].id))]
                      ELSE [blog EXCEPT !.postDetailStatus = API_FAIL],
                   auth, {i})
    /\ UNCHANGED donorVars

\* An outstanding comment-list fetch resolves with n comments, or fails.
ResolveCommentList(i, ok, n) ==
    /\ pdMounted
    /\ i \in pending
    /\ dispatched[i].type = "getPostCommentList"
    /\ StoreUpdate(IF ok
                      THEN [blog EXCEPT !.commentList = Comments(dispatched[i].id, n)]
                      ELSE blog,
                   auth, {i})
    /\ UNCHANGED donorVars

\* An outstanding create-comment request resolves; on success the store adds
\* the new comment to its list.
ResolveCreate(i, ok) ==
    /\ pdMounted
    /\ i \in pending
    /\ dispatched[i].type = "createPostComment"
    /\ StoreUpdate(IF ok /\ Len(blog.commentList) < MaxComments
                      THEN [blog EXCEPT !.commentList =
                              Append(@, Comment(dispatched[i].id, Len(@) + 1))]
                      ELSE blog,
                   auth, {i})
    /\ UNCHANGED donorVars

\* The current user signs in or out.
SetCurrentUser(u) ==
    /\ pdMounted
    /\ u # auth.currentUser
    /\ StoreUpdate(blog, [ currentUser |-> u ], {})
    /\ UNCHANGED donorVars

Next ==
    \/ Mount
    \/ \E nextId \in Ids : RouteChange(nextId)
    \/ \E data \in Payloads : SubmitComment(data)
    \/ ClickSignIn
    \/ \E i \in 1..MaxDispatch, ok \in BOOLEAN : ResolveDetail(i, ok)
    \/ \E i \in 1..MaxDispatch, ok \in BOOLEAN, n \in 0..MaxComments :
          ResolveCommentList(i, ok, n)
    \/ \E i \in 1..MaxDispatch, ok \in BOOLEAN : ResolveCreate(i, ok)
    \/ \E u \in Users \cup {NULL} : SetCurrentUser(u)

Spec == Init /\ [][Next]_vars

---------------------------------------------------------------------------
(* Donors: store contents, lifecycle and rendering *)

getDonorListPage == Call("getDonorListPage", 0, NULL, "")

\* The url of the n-th media entry of item pk.
Url(pk, n) == "img-" \o ToString(pk) \o "-" \o ToString(n)

\* The shapes of the media field of a list item: absent, an empty list, a
\* first entry without url, one entry with a url, two entries with urls.
MediaShapes(pk) ==
    << None,
       Some(<< >>),
       Some(<< [ url |-> None ] >>),
       Some(<< [ url |-> Some(Url(pk, 1)) ] >>),
       Some(<< [ url |-> Some(Url(pk, 1)) ], [ url |-> Some(Url(pk, 2)) ] >>) >>

Donor(pk, shape) ==
    [ pk |-> pk, title |-> << "title", pk >>, description |-> << "about", pk >>,
      media |-> MediaShapes(pk)[shape] ]

\* The orders in which at most n items with distinct keys can be listed.
RECURSIVE KeyLists(_)
KeyLists(n) ==
    IF n = 0 THEN { << >> }
    ELSE LET shorter == KeyLists(n - 1) IN
         shorter \cup
         { Append(l, pk) : l \in { x \in shorter : Len(x) = n - 1 },
                           pk \in 1..MaxDonors }

DistinctKeys(l) == \A i, j \in 1..Len(l) : i # j => l[i] # l[j]

\* The list pages the API can return: the items in any order, the media
\* shapes of neighbouring keys differing, every shape occurring.
DonorListPages ==
    { [ i \in 1..Len(l) |-> Donor(l[i], ((l[i] + shift) % 5) + 1) ]
        : l \in { x \in KeyLists(MaxDonors) : DistinctKeys(x) }, shift \in 0..4 }

\* Variant: fetches on every mount, the loaded flag ignored.
Donors_componentWillMount_Always(d) == << getDonorListPage >>

\* componentWillMount(): fetch unless the page is already loaded
Donors_componentWillMount(d) ==
    IF ~d.donorListPageLoaded THEN << getDonorListPage >> ELSE << >>

\* Variant: getIn without its default, undefined where the path is missing.
getIn_media_0_url_NoDefault(donor, notSetValue) ==
    IF donor.media = None THEN NULL
    ELSE IF Len(donor.media[1]) = 0 THEN NULL
    ELSE IF donor.media[1][1].url = None THEN NULL
    ELSE donor.media[1][1].url[1]

\* donor.getIn(['media', 0, 'url'], notSetValue)
getIn_media_0_url(donor, notSetValue) ==
    IF donor.media = None THEN notSetValue
    ELSE IF Len(donor.media[1]) = 0 THEN notSetValue
    ELSE IF donor.media[1][1].url = None THEN notSetValue
    ELSE donor.media[1][1].url[1]

\* Variant: the cards in reverse of the store's order.
Donors_render_Reversed(d) ==
    [ i \in 1..Len(d.donorListPage) |->
        LET donor == d.donorListPage[Len(d.donorListPage) + 1 - i] IN
        [ tag |-> "DonorCard", key |-> donor.pk, id |-> donor.pk,
          image |-> IF donor.media # None /\ donor.media[1] # << >>
                       /\ donor.media[1][1].url # None
                    THEN donor.media[1][1].url[1] ELSE "",
          title |-> donor.title, description |-> donor.description ] ]

\* render(): the children of <Row>
Donors_render(d) ==
    [ i \in 1..Len(d.donorListPage) |->
        [ tag |-> "DonorCard",
          key |-> d.donorListPage[i].pk,
          id |-> d.donorListPage[i].pk,
          image |-> getIn_media_0_url(d.donorListPage[i], ""),
          title |-> d.donorListPage[i].title,
          description |-> d.donorListPage[i].description ] ]

Cards == Donors_render(donors)

\* A Donors instance is created and mounted.
DonorsMount ==
    LET calls == Donors_componentWillMount(donors) IN
    /\ ~donorsMounted
    /\ listPending + Len(calls) <= MaxListFetches
    /\ donorsMounted' = TRUE
    /\ loadedAtMount' = donors.donorListPageLoaded
    /\ donorsCalls' = calls
    /\ listPending' = listPending + Len(calls)
    /\ UNCHANGED donors
    /\ UNCHANGED pdVars

DonorsUnmount ==
    /\ donorsMounted
    /\ donorsMounted' = FALSE
    /\ UNCHANGED << donors, donorsCalls, loadedAtMount, listPending >>
    /\ UNCHANGED pdVars

\* An outstanding list-page request succeeds with `page`.
ResolveListSuccess(page) ==
    /\ listPending > 0
    /\ listPending' = listPending - 1
    /\ donors' = [ donorListPageLoaded |-> TRUE, donorListPage |-> page ]
    /\ UNCHANGED << donorsMounted, donorsCalls, loadedAtMount >>
    /\ UNCHANGED pdVars

\* An outstanding list-page request fails: the slice keeps what it held.
ResolveListFail ==
    /\ listPending > 0
    /\ listPending' = listPending - 1
    /\ UNCHANGED << donors, donorsMounted, donorsCalls, loadedAtMount >>
    /\ UNCHANGED pdVars

\* App-wide state reset.
ResetStore ==
    /\ donors # [ donorListPageLoaded |-> FALSE, donorListPage |-> << >> ]
    /\ donors' = [ donorListPageLoaded |-> FALSE, donorListPage |-> << >> ]
    /\ UNCHANGED << donorsMounted, donorsCalls, loadedAtMount, listPending >>
    /\ UNCHANGED pdVars

DonorsNext ==
    \/ DonorsMount
    \/ DonorsUnmount
    \/ \E page \in DonorListPages : ResolveListSuccess(page)
    \/ ResolveListFail
    \/ ResetStore

DonorsSpec == DonorsInit /\ [][DonorsNext]_vars

---------------------------------------------------------------------------
(* Properties of PostDetail, checked under Spec *)

IsFetch(call) == call.type \in {"getPostDetail", "getPostCommentList"}

OfType(calls, type) == SelectSeq(calls, LAMBDA c : c.type = type)

\* The calls a step adds to the log.
NewCalls == SubSeq(dispatched', Len(dispatched) + 1, Len(dispatched'))

\* Position in the log of the k-th call of the given type.
Position(type, k) ==
    CHOOSE i \in 1..Len(dispatched) :
        /\ dispatched[i].type = type
        /\ Cardinality({ j \in 1..i : dispatched[j].type = type }) = k

\* C1: the mount, and every props update that changes the route identifier
\* from A to B, adds to the log exactly one detail fetch and exactly one
\* comment-list fetch, both carrying the identifier the route has after the
\* step (the mounted one, resp. B).
C1_FetchPairForNewId ==
    [][ ((~pdMounted /\ pdMounted') \/ (pdMounted /\ routeId' # routeId))
        => /\ Len(dispatched') >= Len(dispatched)
           /\ SubSeq(dispatched', 1, Len(dispatched)) = dispatched
           /\ Len(OfType(NewCalls, "getPostDetail")) = 1
           /\ Len(OfType(NewCalls, "getPostCommentList")) = 1
           /\ \A k \in 1..Len(NewCalls) : IsFetch(NewCalls[k]) /\ NewCalls[k].id = routeId' ]_vars

C1_Witness ==
    /\ pdMounted
    /\ idChanges = 1
    /\ Len(dispatched) = 4
    /\ dispatched[1].id # routeId
    /\ dispatched[3] = getPostDetail(routeId)
    /\ dispatched[4] = getPostCommentList(routeId)

\* C3: the mounted detail view renders exactly the branch of the detail
\* status: only the loading indicator under PENDING, only the not-found
\* message under FAIL, only the full detail under SUCCESS; never two of the
\* three, and the full detail (which dereferences the stored item, without
\* failing) only under SUCCESS.
C3_ExclusiveBranches ==
    pdMounted =>
        /\ CountTag(Rendered, "Spinner") + CountTag(Rendered, "SectionTitle")
             + CountTag(Rendered, "page-content") + CountTag(Rendered, "TypeError") <= 1
        /\ blog.postDetailStatus = API_PENDING => Rendered = << [ tag |-> "Spinner" ] >>
        /\ blog.postDetailStatus = API_FAIL => Rendered = << [ tag |-> "SectionTitle" ] >>
        /\ blog.postDetailStatus = API_SUCCESS =>
               Len(Rendered) = 1 /\ Rendered[1].tag = "page-content"
        /\ (Has(Rendered, "page-content") \/ Has(Rendered, "TypeError"))
               => blog.postDetailStatus = API_SUCCESS

C3_Witness ==
    /\ pdMounted
    /\ blog.postDetailStatus = API_SUCCESS
    /\ Len(dispatched) > 2
    /\ DetailShown
    /\ DetailView.title = routeId

\* C4: a submit of payload P on route ID adds exactly one call to the log,
\* createPostComment({id: ID, data: P}) with ID the route identifier at the
\* time of the submit; it adds no fetch and leaves the blog slice, the
\* comment list included, as it was.
C4_SubmitCreatesOneComment ==
    [][ submitted' # submitted
        => /\ dispatched' = Append(dispatched,
                                   createPostComment(routeId, submitted'[Len(submitted')][2]))
           /\ submitted'[Len(submitted')][1] = routeId
           /\ blog' = blog ]_vars

C4_Witness ==
    /\ idChanges >= 1
    /\ dispatched[1].id # routeId
    /\ Len(submitted) = 1
    /\ dispatched[Len(dispatched)] = createPostComment(routeId, "p2")

FormShown == DetailShown /\ Has(DetailView.comments.children, "CommentForm")
PromptShown == DetailShown /\ Has(DetailView.comments.children, "Alert")

\* C5: under SUCCESS the mounted detail view renders exactly one of the
\* comment form and the sign-in prompt: the form exactly when the store has a
\* current user, the prompt exactly when it has none.  Under PENDING or FAIL
\* it renders neither.
C5_AuthGate ==
    pdMounted =>
        IF blog.postDetailStatus = API_SUCCESS
        THEN /\ DetailShown
             /\ CountTag(DetailView.comments.children, "CommentForm")
                  + CountTag(DetailView.comments.children, "Alert") = 1
             /\ FormShown <=> auth.currentUser # NULL
             /\ PromptShown <=> auth.currentUser = NULL
        ELSE ~FormShown /\ ~PromptShown /\ ~DetailShown

C5_Witness ==
    /\ pdMounted
    /\ blog.postDetailStatus = API_SUCCESS
    /\ auth.currentUser = NULL
    /\ PromptShown
    /\ ~FormShown
    /\ \E i \in 1..Len(dispatched) : dispatched[i] = show("signinModal")

\* C6: under SUCCESS the count in the comments header equals the number of
\* comment entries rendered and the length of the store's comment list (with
\* no comments: a count of 0 and no entry).
C6_CommentCount ==
    (pdMounted /\ blog.postDetailStatus = API_SUCCESS) =>
        /\ DetailShown
        /\ DetailView.comments.count = Len(blog.commentList)
        /\ CountTag(DetailView.comments.children, "comment") = Len(blog.commentList)
        /\ \A i \in 1..Len(blog.commentList) :
              /\ DetailView.comments.children[i].tag = "comment"
              /\ DetailView.comments.children[i].content = blog.commentList[i].content

C6_Witness ==
    /\ pdMounted
    /\ DetailShown
    /\ Len(dispatched) >= 2
    /\ ~(2 \in pending)
    /\ blog.commentList = << >>
    /\ DetailView.comments.count = 0
    /\ ~Has(DetailView.comments.children, "comment")

IsDetailFetch(i) == dispatched[i].type = "getPostDetail"

\* C9: a route change cancels nothing: every request outstanding before it
\* is outstanding after it, together with the detail fetch for the new
\* identifier; and each detail fetch that resolves, in whatever order, sets
\* the displayed status and, on success, the displayed item to its own
\* result.
C9_NoCancellationLastWins ==
    [][ /\ (pdMounted /\ routeId' # routeId)
           => /\ pending \subseteq pending'
              /\ \E i \in pending' \ pending : dispatched'[i] = getPostDetail(routeId')
        /\ \A i \in pending \ pending' :
              IsDetailFetch(i)
              => /\ blog'.postDetailStatus \in {API_SUCCESS, API_FAIL}
                 /\ blog'.postDetailStatus = API_SUCCESS
                      => blog'.postDetail = Some(Post(dispatched[i].id)) ]_vars

\* The route shows B, both detail fetches have resolved, and the view shows
\* the item of the earlier route A.
C9_Witness ==
    /\ pdMounted
    /\ idChanges = 1
    /\ ~(\E i \in pending : IsDetailFetch(i))
    /\ blog.postDetailStatus = API_SUCCESS
    /\ DetailShown
    /\ DetailView.title = dispatched[1].id
    /\ DetailView.title # routeId

\* C10: once mounted, the log holds as many detail fetches as comment-list
\* fetches, namely 1 + the number of props updates that changed the route
\* identifier; the k-th of each carry the same identifier and the detail
\* fetch comes first.  (So a props update that keeps the identifier fetches
\* nothing, and the mount fetches whatever the store holds.)
C10_PairedFetches ==
    pdMounted =>
        /\ Len(OfType(dispatched, "getPostDetail")) = 1 + idChanges
        /\ Len(OfType(dispatched, "getPostCommentList")) = 1 + idChanges
        /\ \A k \in 1..(1 + idChanges) :
              /\ OfType(dispatched, "getPostDetail")[k].id
                   = OfType(dispatched, "getPostCommentList")[k].id
              /\ Position("getPostDetail", k) < Position("getPostCommentList", k)

C10_Witness ==
    /\ pdMounted
    /\ idChanges = 1
    /\ pending = {}
    /\ Len(submitted) = 1
    /\ Len(OfType(dispatched, "getPostDetail")) = 2
    /\ OfType(dispatched, "getPostDetail")[2].id # OfType(dispatched, "getPostDetail")[1].id

---------------------------------------------------------------------------
(* Properties of Donors, checked under DonorsSpec *)

\* C2: while a Donors instance is mounted, the calls it has made are exactly
\* one parameterless getDonorListPage() if the loaded flag was false when it
\* mounted, and none if the flag was true, whatever the store did since.
C2_FetchOncePerMountUnlessLoaded ==
    donorsMounted =>
        donorsCalls = IF loadedAtMount THEN << >> ELSE << getDonorListPage >>

\* Mounted over a loaded page, then the store was reset: still no call.
C2_Witness ==
    /\ donorsMounted
    /\ loadedAtMount
    /\ ~donors.donorListPageLoaded
    /\ donorsCalls = << >>

\* C7: the listing renders one card per item of the store's list page, card
\* i for item i, with the item's id, title and description; over an empty
\* page it renders no card, and never anything but cards.
C7_OneCardPerItemInOrder ==
    donorsMounted =>
        /\ Len(Cards) = Len(donors.donorListPage)
        /\ \A i \in 1..Len(Cards) :
              /\ Cards[i].tag = "DonorCard"
              /\ Cards[i].id = donors.donorListPage[i].pk
              /\ Cards[i].title = donors.donorListPage[i].title
              /\ Cards[i].description = donors.donorListPage[i].description
        /\ donors.donorListPage = << >> => Cards = << >>

C7_Witness ==
    /\ donorsMounted
    /\ Len(Cards) = 2
    /\ Cards[1].id > Cards[2].id
    /\ donors.donorListPage[1].pk = Cards[1].id

HasFirstUrl(donor) ==
    /\ donor.media # None
    /\ Len(donor.media[1]) >= 1
    /\ donor.media[1][1].url # None

\* C8: each card's image is the url of the item's first media entry when the
\* item has one, and the empty string when the media field is missing, the
\* media list is empty or the first entry has no url; every item gets its
\* card either way.
C8_ImageDefaultsToEmpty ==
    donorsMounted =>
        /\ Len(Cards) = Len(donors.donorListPage)
        /\ \A i \in 1..Len(Cards) :
              Cards[i].image = IF HasFirstUrl(donors.donorListPage[i])
                                  THEN donors.donorListPage[i].media[1][1].url[1]
                                  ELSE ""

C8_Witness ==
    /\ donorsMounted
    /\ \E i, j \in 1..Len(Cards) :
          /\ donors.donorListPage[i].media = Some(<< [ url |-> None ] >>)
          /\ Cards[i].image = ""
          /\ HasFirstUrl(donors.donorListPage[j])
          /\ Cards[j].image = Url(Cards[j].id, 1)

=============================================================================
